---------------------------- MODULE Spec2Model ----------------------------
(***************************************************************************)
(* WaveHero (docs/js/wave-hero.js): the adaptive background pipeline.      *)
(* The singleton's fields are the variables; every entry point of the      *)
(* script (init, destroy), every callback the browser may run for it       *)
(* (script onload/onerror, animation frames) is one action.  Handlers run  *)
(* to completion (single-threaded), so a handler and everything it calls   *)
(* synchronously is one step.                                              *)
(***************************************************************************)
EXTENDS Integers, Sequences, FiniteSets, TLC

(***************************************************************************)
(* Bounds of the model.                                                    *)
(***************************************************************************)
\* init calls that get past the guard
MaxInits == 2
\* frame callbacks run only while requestAnimationFrame ids are below this
MaxFrameId == 2

(***************************************************************************)
(* Values.  JavaScript null is 0 for ids and handles (requestAnimationFrame*)
(* ids are positive), "" for element ids and owner tags.                   *)
(***************************************************************************)
NoEl == ""
NoConfig == [k \in {} |-> 0]
NoInit == [k \in {} |-> 0]

\* presets; waveSpeed and opacity, fractions in the source, are in thousandths
presets ==
  [ waves      |-> [separation |-> 80,  amountX |-> 60, amountY |-> 40, color |-> 9133302,
                    waveHeight |-> 30, cameraZ |-> 1200, cameraY |-> 400, particleSize |-> 200,
                    waveSpeed |-> 50, opacity |-> 400],
    particles  |-> [separation |-> 100, amountX |-> 50, amountY |-> 50, color |-> 440020,
                    waveHeight |-> 50, cameraZ |-> 1500, cameraY |-> 500, particleSize |-> 150,
                    waveSpeed |-> 30, opacity |-> 300],
    grid       |-> [separation |-> 60,  amountX |-> 80, amountY |-> 50, color |-> 13935939,
                    waveHeight |-> 20, cameraZ |-> 1000, cameraY |-> 300, particleSize |-> 180,
                    waveSpeed |-> 80, opacity |-> 500],
    nebula     |-> [separation |-> 120, amountX |-> 40, amountY |-> 30, color |-> 11032055,
                    color2 |-> 2282478,
                    waveHeight |-> 60, cameraZ |-> 1800, cameraY |-> 600, particleSize |-> 250,
                    waveSpeed |-> 20, opacity |-> 350],
    quantum    |-> [separation |-> 70,  amountX |-> 70, amountY |-> 45, color |-> 2282478,
                    color2 |-> 9133302,
                    waveHeight |-> 40, cameraZ |-> 1100, cameraY |-> 350, particleSize |-> 220,
                    waveSpeed |-> 40, opacity |-> 450],
    governance |-> [separation |-> 90,  amountX |-> 55, amountY |-> 35, color |-> 13935939,
                    color2 |-> 9133302,
                    waveHeight |-> 25, cameraZ |-> 1300, cameraY |-> 450, particleSize |-> 190,
                    waveSpeed |-> 30, opacity |-> 350],
    classical  |-> [separation |-> 75,  amountX |-> 65, amountY |-> 42, color |-> 9133302,
                    waveHeight |-> 35, cameraZ |-> 1150, cameraY |-> 380, particleSize |-> 210,
                    waveSpeed |-> 45, opacity |-> 400] ]

\* pathPresets, in the insertion order Object.entries walks; a path or a
\* pattern is a sequence of characters
pathPresets ==
  << [pattern |-> <<"/","q","u","a","n","t","u","m">>,                         preset |-> "quantum"],
     [pattern |-> <<"/","g","o","v","e","r","n","a","n","c","e">>,             preset |-> "governance"],
     [pattern |-> <<"/","c","l","a","s","s","i","c","a","l">>,                 preset |-> "classical"],
     [pattern |-> <<"/","b","l","o","g">>,                                     preset |-> "nebula"],
     [pattern |-> <<"/","a","b","o","u","t">>,                                 preset |-> "particles"],
     [pattern |-> <<"/","v","i","s","u","a","l","i","z","a","t","i","o","n","s">>, preset |-> "grid"],
     [pattern |-> <<"/">>,                                                     preset |-> "waves"] >>

\* String.prototype.startsWith
startsWith(path, pattern) ==
  /\ Len(pattern) <= Len(path)
  /\ SubSeq(path, 1, Len(pattern)) = pattern

\* a detection that lets the last entry that starts the path win, '/' included
detectPresetLastMatch(path) ==
  LET hits == {i \in 1..Len(pathPresets) : startsWith(path, pathPresets[i].pattern)}
  IN  IF hits = {} THEN "waves"
      ELSE pathPresets[CHOOSE i \in hits : \A j \in hits : j <= i].preset

\* detectPreset: the first entry, other than '/', whose pattern starts the path
detectPreset(path) ==
  LET hits == {i \in 1..Len(pathPresets) :
                 /\ pathPresets[i].pattern # <<"/">>
                 /\ startsWith(path, pathPresets[i].pattern)}
  IN  IF hits = {} THEN "waves"
      ELSE pathPresets[CHOOSE i \in hits : \A j \in hits : i <= j].preset

\* { ...preset, ...custom }
Spread(preset, custom) ==
  [k \in (DOMAIN preset) \cup (DOMAIN custom) |->
     IF k \in DOMAIN custom THEN custom[k] ELSE preset[k]]

\* names every object literal inherits from Object.prototype: this.presets[name]
\* finds a function (or, for __proto__, the prototype object) under them
ObjectPrototype ==
  {"constructor", "toString", "toLocaleString", "valueOf", "hasOwnProperty",
   "isPrototypeOf", "propertyIsEnumerable", "__proto__"}

\* an object with no own enumerable property, as the spread sees the values
\* found under the inherited names
NoOwnFields == [k \in {} |-> 0]

\* this.presets[presetName] || this.presets.waves, with `table` what
\* this.presets holds: an own key, else an inherited name (truthy), else
\* undefined and the baseline
LookupPreset(table, presetName) ==
  IF presetName \in DOMAIN table THEN table[presetName]
  ELSE IF presetName \in ObjectPrototype THEN NoOwnFields
  ELSE table.waves

\* JavaScript truthiness of a number
Truthy(n) == n # 0

\* if (options.color): the option is there and is not 0
ColorGiven(options) == "color" \in DOMAIN options /\ Truthy(options.color)

\* init, lines 193-198: the configuration for the options; a preset option
\* left out is "" (as falsy as undefined), a color option left out is no
\* field of the record
ResolveConfig(table, options, path) ==
  LET presetName == IF options.preset # "" THEN options.preset ELSE detectPreset(path)
      preset == LookupPreset(table, presetName)
      merged == Spread(preset, options.custom)
  IN  IF ColorGiven(options) THEN Spread(merged, [color |-> options.color]) ELSE merged

(***************************************************************************)
(* Numbers.  The script computes in floating point; here every quantity    *)
(* that can have a fraction (offsets, coordinates, scales, the time        *)
(* cursor) is an integer count of thousandths, and a product or quotient   *)
(* is rounded down to the thousandth.                                      *)
(***************************************************************************)
Unit == 1000

\* the constant pi, and a full turn, in thousandths
Pi == 3142
TwoPi == 6283

\* Math.sin of an angle in thousandths of a radian, in thousandths
\* (Bhaskara's rational approximation on a half turn, odd and periodic)
SinHalfTurn(x) ==
  (((16 * x * (Pi - x)) \div Unit) * Unit) \div ((5 * Pi * Pi - 4 * x * (Pi - x)) \div Unit)

sin(a) ==
  LET x == a % TwoPi
  IN  IF x <= Pi THEN SinHalfTurn(x) ELSE 0 - SinHalfTurn(x - Pi)

\* Math.min
min(a, b) == IF a <= b THEN a ELSE b

\* the two phases of the wave at a grid cell: (ix + count) * 0.3 and
\* (iy + count) * 0.5
phaseX(ix, count) == ((ix * Unit + count) * 3) \div 10
phaseY(iy, count) == ((iy * Unit + count) * 5) \div 10

(***************************************************************************)
(* The point grid of the GPU tier: the two typed arrays of initWebGL and    *)
(* the per-frame update of animate.  A typed array has a fixed length; a   *)
(* write past its end is dropped.  Arrays are indexed from 0 in the         *)
(* script and from 1 here.                                                  *)
(***************************************************************************)
NoParticles == [position |-> << >>, scale |-> << >>]

\* an allocation that is one entry short
Float32ArrayOneShort(n) == [k \in 1..(n - 1) |-> 0]

\* new Float32Array(n)
Float32Array(n) == [k \in 1..n |-> 0]

\* array[i] = v
SetAt(array, i, v) == IF i + 1 \in DOMAIN array THEN [array EXCEPT ![i + 1] = v] ELSE array

\* the construction loop of initWebGL (lines 272-281) from cell j on, cells
\* counted in the order the nested loops visit them
RECURSIVE fillGrid(_, _, _)
fillGrid(buffers, cfg, j) ==
  IF j >= cfg.amountX * cfg.amountY THEN buffers
  ELSE LET ix == j \div cfg.amountY
           iy == j % cfg.amountY
           p0 == SetAt(buffers.position, 3 * j,
                       ix * cfg.separation * Unit - (cfg.amountX * cfg.separation * Unit) \div 2)
           p1 == SetAt(p0, 3 * j + 1, 0)
           p2 == SetAt(p1, 3 * j + 2,
                       iy * cfg.separation * Unit - (cfg.amountY * cfg.separation * Unit) \div 2)
       IN  fillGrid([position |-> p2, scale |-> SetAt(buffers.scale, j, Unit)], cfg, j + 1)

\* initWebGL, lines 268-285: the position and the scale array
buildParticles(cfg) ==
  LET numParticles == cfg.amountX * cfg.amountY
  IN  fillGrid([position |-> Float32Array(numParticles * 3),
                scale |-> Float32Array(numParticles)], cfg, 0)

\* a wave update that adds to what the arrays held
RECURSIVE waveLoopAccumulates(_, _, _, _)
waveLoopAccumulates(buffers, cfg, count, j) ==
  IF j >= cfg.amountX * cfg.amountY THEN buffers
  ELSE LET ix == j \div cfg.amountY
           iy == j % cfg.amountY
           old == IF 3 * j + 2 \in DOMAIN buffers.position THEN buffers.position[3 * j + 2] ELSE 0
       IN  waveLoopAccumulates(
             [position |-> SetAt(buffers.position, 3 * j + 1,
                                 old + sin(phaseX(ix, count)) * cfg.waveHeight
                                     + sin(phaseY(iy, count)) * cfg.waveHeight),
              scale    |-> SetAt(buffers.scale, j, (sin(phaseX(ix, count)) + Unit) * 8
                                                 + (sin(phaseY(iy, count)) + Unit) * 8)],
             cfg, count, j + 1)

\* a wave update that writes the height one entry early, over the x coordinate
RECURSIVE waveLoopWritesX(_, _, _, _)
waveLoopWritesX(buffers, cfg, count, j) ==
  IF j >= cfg.amountX * cfg.amountY THEN buffers
  ELSE LET ix == j \div cfg.amountY
           iy == j % cfg.amountY
       IN  waveLoopWritesX(
             [position |-> SetAt(buffers.position, 3 * j,
                                 sin(phaseX(ix, count)) * cfg.waveHeight
                                 + sin(phaseY(iy, count)) * cfg.waveHeight),
              scale    |-> SetAt(buffers.scale, j, (sin(phaseX(ix, count)) + Unit) * 8
                                                 + (sin(phaseY(iy, count)) + Unit) * 8)],
             cfg, count, j + 1)

\* the wave loop of animate (lines 449-457) from cell j on
RECURSIVE waveLoop(_, _, _, _)
waveLoop(buffers, cfg, count, j) ==
  IF j >= cfg.amountX * cfg.amountY THEN buffers
  ELSE LET ix == j \div cfg.amountY
           iy == j % cfg.amountY
       IN  waveLoop(
             [position |-> SetAt(buffers.position, 3 * j + 1,
                                 sin(phaseX(ix, count)) * cfg.waveHeight
                                 + sin(phaseY(iy, count)) * cfg.waveHeight),
              scale    |-> SetAt(buffers.scale, j, (sin(phaseX(ix, count)) + Unit) * 8
                                                 + (sin(phaseY(iy, count)) + Unit) * 8)],
             cfg, count, j + 1)

(***************************************************************************)
(* The point elements of the DOM-transform tier: one CSS3DObject per cell, *)
(* with its userData (ix, iy), its position and its element's opacity.      *)
(***************************************************************************)
\* the construction loops of startCSS3D (lines 365-385): cell j of an
\* amountX by amountY grid; a position starts at 0 and an element's opacity
\* unset, which renders opaque
domParticle(j, amountX, amountY, separation) ==
  LET ix == j \div amountY
      iy == j % amountY
  IN  [ix |-> ix, iy |-> iy,
       x |-> ix * separation - (amountX * separation) \div 2,
       y |-> 0,
       z |-> iy * separation - (amountY * separation) \div 2,
       opacity |-> Unit]

\* a construction that takes the configured grid as it is
buildCss3dParticlesUncapped(cfg) ==
  LET separation == (cfg.separation * Unit * 15) \div 10
  IN  [j \in 1..(cfg.amountX * cfg.amountY) |->
         domParticle(j - 1, cfg.amountX, cfg.amountY, separation)]

\* startCSS3D, lines 356-358 and 362-387: the particles array
buildCss3dParticles(cfg) ==
  LET amountX == min(cfg.amountX, 20)
      amountY == min(cfg.amountY, 15)
      separation == (cfg.separation * Unit * 15) \div 10
  IN  [j \in 1..(amountX * amountY) |-> domParticle(j - 1, amountX, amountY, separation)]

\* the forEach body of animateCSS3D (lines 476-482) for one particle
waveParticle(p, cfg, count) ==
  LET scale == (sin(phaseX(p.ix, count)) + Unit) \div 2
               + (sin(phaseY(p.iy, count)) + Unit) \div 2 + Unit \div 2
  IN  [p EXCEPT !.y = (sin(phaseX(p.ix, count)) * cfg.waveHeight * 13) \div 10
                      + (sin(phaseY(p.iy, count)) * cfg.waveHeight * 13) \div 10,
                !.opacity = (scale * cfg.opacity * 2) \div Unit]

\* css3dParticles.forEach(...)
waveParticles(ps, cfg, count) == [k \in DOMAIN ps |-> waveParticle(ps[k], cfg, count)]

(***************************************************************************)
(* The camera: its aspect ratio, kept as the two numbers it is the         *)
(* quotient of, and its position.                                          *)
(***************************************************************************)
NoCamera == [k \in {} |-> 0]

\* window.innerWidth / window.innerHeight
Aspect(width, height) == [num |-> width, den |-> height]

\* initWebGL, lines 265-266
gpuCamera(cfg, width, height) ==
  [aspect |-> Aspect(width, height), x |-> 0, y |-> cfg.cameraY * Unit, z |-> cfg.cameraZ * Unit]

\* startCSS3D, lines 363-364
domCamera(cfg, width, height) ==
  [aspect |-> Aspect(width, height), x |-> 0,
   y |-> (cfg.cameraY * Unit * 75) \div 100, z |-> (cfg.cameraZ * Unit * 8) \div 10]

\* the camera parallax of animate, lines 440-441
parallax(cam, mouseX, mouseY, cfg) ==
  LET x == cam.x + (((mouseX * 3) \div 10 - cam.x) * 2) \div 100
      y == cam.y + ((0 - (mouseY * 3) \div 10 + cfg.cameraY * Unit - cam.y) * 2) \div 100
  IN  [cam EXCEPT !.x = x, !.y = y]

(***************************************************************************)
(* The stage: the fields of WaveHero and of the browser that say what is   *)
(* drawn and from where.                                                    *)
(*   mouseX, mouseY            this.mouseX, this.mouseY: the pointer's      *)
(*                             offset from the centre of the window         *)
(*   windowHalfX, windowHalfY  this.windowHalfX, this.windowHalfY           *)
(*   count                     this.count: the time cursor of the wave      *)
(*   camera                    this.camera: aspect and position             *)
(*   particles                 this.particles: position and scale array     *)
(*   css3dParticles            this.css3dParticles                          *)
(*   innerWidth, innerHeight   window.innerWidth, window.innerHeight        *)
(*   gpuSurface, domSurface    per renderer constructed, the size setSize   *)
(*                             gave it last                                 *)
(*   closure                   per frame request, the configuration its     *)
(*                             loop closure captured (const cfg)            *)
(*   paints                    render calls that returned                   *)
(*   loops                     runs of a loop closure that reached their    *)
(*                             end                                          *)
(*   painted                   what the render call of the handler that     *)
(*                             ran last was given                           *)
(* The lifecycle does not read the stage.  A specification that follows    *)
(* the lifecycle only starts with the stage NotFollowed, and every          *)
(* operation on the stage leaves it so.                                     *)
(***************************************************************************)
NotFollowed == [k \in {} |-> 0]

NoPaint == [k \in {} |-> 0]
\* the size of a renderer's surface before the script sets it
NoSize == << >>

Stage ==
  [mouseX |-> 0, mouseY |-> 0, windowHalfX |-> 0, windowHalfY |-> 0, count |-> 0,
   camera |-> NoCamera, particles |-> NoParticles, css3dParticles |-> << >>,
   innerWidth |-> 800, innerHeight |-> 600, gpuSurface |-> << >>, domSurface |-> << >>,
   closure |-> << >>, paints |-> 0, loops |-> 0, painted |-> NoPaint]

\* the stage is followed
Followed(g) == DOMAIN g # {}

(***************************************************************************)
(* The state.                                                              *)
(*   Fields of the WaveHero object (lines 133-140, 204-205, 387, 406-410). *)
(*   The browser: the document, the scripts being fetched, the pending     *)
(*   animation-frame requests, the renderers that were constructed.        *)
(*   The observer: the lifecycle stage last announced, the last operation. *)
(***************************************************************************)
VARIABLES
  presetTable,    \* this.presets
  initialized,    \* this.initialized
  config,         \* this.config
  containerId,    \* this.containerId
  fallbackEl,     \* this.fallbackEl: the id of the element, NoEl for null
  renderer,       \* this.renderer: index into gpuRenderers, 0 for null
  css3dRenderer,  \* this.css3dRenderer: index into domRenderers, 0 for null
  animationId,    \* this.animationId: 0 for null
  doc,            \* ids of the anchor elements in the document
  hidden,         \* ids of the elements whose classList holds 'hidden'
  displayed,      \* ids of the elements with style.display = 'block'
  threeLoaded,    \* window.THREE
  pendingThree,   \* three.min.js script elements still loading
  pendingCss3d,   \* CSS3DRenderer.js script elements still loading
  gpuRenderers,   \* every THREE.WebGLRenderer constructed: "live" or "disposed"
  domRenderers,   \* every THREE.CSS3DRenderer constructed: its domElement is
                  \* "detached" (never inserted), "attached" or "removed"
  frames,         \* pending requestAnimationFrame requests: [id, kind]
  nextFrameId,    \* the id the next requestAnimationFrame returns
  listeners,      \* (pointermove, resize) listener pairs registered
  stage,          \* what is drawn and from where, one record (see Stage)
  tier,           \* lifecycle stage last announced
  downgraded,     \* the pipeline has been in DomActive or StaticFallback
  everDestroyed,  \* destroy has been called
  escaped,        \* an exception left a handler uncaught
  lastOp,         \* the operation that ran last
  inits,          \* init calls that got past the guard
  lastInit        \* the options and the pathname of the last such init call

vars == << presetTable, initialized, config, containerId, fallbackEl, renderer, css3dRenderer,
           animationId, doc, hidden, displayed, threeLoaded, pendingThree, pendingCss3d,
           gpuRenderers, domRenderers, frames, nextFrameId, listeners, stage,
           tier, downgraded, everDestroyed, escaped, lastOp, inits, lastInit >>

\* the fields of the WaveHero object and the browser state it acts on
progVars == << presetTable, initialized, config, containerId, fallbackEl, renderer, css3dRenderer,
               animationId, doc, hidden, displayed, threeLoaded, pendingThree, pendingCss3d,
               gpuRenderers, domRenderers, frames, nextFrameId, listeners, stage >>

\* the current state as one record, so that a handler is a function of it
Cur ==
  [ presetTable |-> presetTable,
    initialized |-> initialized, config |-> config, containerId |-> containerId,
    fallbackEl |-> fallbackEl, renderer |-> renderer,
    css3dRenderer |-> css3dRenderer, animationId |-> animationId, doc |-> doc,
    hidden |-> hidden, displayed |-> displayed, threeLoaded |-> threeLoaded,
    pendingThree |-> pendingThree, pendingCss3d |-> pendingCss3d,
    gpuRenderers |-> gpuRenderers, domRenderers |-> domRenderers, frames |-> frames,
    nextFrameId |-> nextFrameId, listeners |-> listeners,
    stage |-> stage, tier |-> tier,
    downgraded |-> downgraded, everDestroyed |-> everDestroyed, escaped |-> escaped,
    lastOp |-> lastOp, inits |-> inits, lastInit |-> lastInit ]

\* the next state is the record a handler returned
Becomes(s) ==
  /\ initialized' = s.initialized        /\ config' = s.config
  /\ containerId' = s.containerId        /\ fallbackEl' = s.fallbackEl
  /\ renderer' = s.renderer              /\ css3dRenderer' = s.css3dRenderer
  /\ animationId' = s.animationId        /\ doc' = s.doc
  /\ hidden' = s.hidden                  /\ displayed' = s.displayed
  /\ threeLoaded' = s.threeLoaded        /\ pendingThree' = s.pendingThree
  /\ pendingCss3d' = s.pendingCss3d      /\ gpuRenderers' = s.gpuRenderers
  /\ domRenderers' = s.domRenderers      /\ frames' = s.frames
  /\ nextFrameId' = s.nextFrameId        /\ listeners' = s.listeners
  /\ tier' = s.tier                      /\ downgraded' = s.downgraded
  /\ everDestroyed' = s.everDestroyed    /\ escaped' = s.escaped
  /\ lastOp' = s.lastOp                  /\ inits' = s.inits
  /\ lastInit' = s.lastInit             /\ stage' = s.stage
  /\ presetTable' = s.presetTable

\* the browser or the host page enters a handler: the observer starts afresh
enter(s, op) ==
  [s EXCEPT !.lastOp = op,
            !.stage = (LET g == @ IN IF Followed(g) THEN [g EXCEPT !.painted = NoPaint] ELSE g)]

(***************************************************************************)
(* Browser primitives.                                                     *)
(***************************************************************************)
\* document.getElementById: the element with that id, null when there is none
getElementById(d, id) == IF id \in d THEN id ELSE NoEl

\* requestAnimationFrame(loop), with the handle stored in this.animationId;
\* loop is the closure of animate ("webgl") or of animateCSS3D ("css3d"), and
\* cfg the configuration that closure captured
requestFrame(s, kind, cfg) ==
  [s EXCEPT !.animationId = s.nextFrameId,
            !.frames = @ \cup {[id |-> s.nextFrameId, kind |-> kind]},
            !.stage = (LET g == @ IN IF Followed(g) THEN
                        [g EXCEPT !.closure = [id \in DOMAIN @ \cup {s.nextFrameId} |->
                                                 IF id = s.nextFrameId THEN cfg ELSE @[id]]] ELSE g),
            !.nextFrameId = @ + 1]

\* the configuration the closure of a frame request captured
closureCfg(s, f) ==
  IF Followed(s.stage) THEN s.stage.closure[f.id] ELSE NoConfig

\* cancelAnimationFrame(id): the request with that handle, if still pending
cancelAnimationFrame(fs, id) == {f \in fs : f.id # id}

(***************************************************************************)
(* WaveHero's methods, leaf first.                                         *)
(***************************************************************************)
\* createElements: the default canvas and the default fallback, if missing
createElements(s) ==
  [s EXCEPT !.doc = @ \cup {"wavehero-canvas", "wavehero-fallback"}]

\* a fallback that starts an animation loop all the same
showFallbackStartsLoop(s) ==
  requestFrame([s EXCEPT !.tier = "StaticFallback", !.downgraded = TRUE], "css3d", s.config)

\* showFallback: logs; the fallback element is left as it is
showFallback(s) ==
  [s EXCEPT !.tier = "StaticFallback", !.downgraded = TRUE]

\* if (this.fallbackEl) this.fallbackEl.classList.add('hidden')
hideFallback(s) ==
  IF s.fallbackEl # NoEl THEN [s EXCEPT !.hidden = @ \cup {s.fallbackEl}] ELSE s

\* setupInteraction: resets the pointer offset and the time cursor, adds one
\* more pointermove listener and one more resize listener
setupInteraction(s) ==
  [s EXCEPT !.stage = (LET g == @ IN IF Followed(g) THEN
                      [g EXCEPT !.mouseX = 0, !.mouseY = 0,
                                !.windowHalfX = (g.innerWidth * Unit) \div 2,
                                !.windowHalfY = (g.innerHeight * Unit) \div 2,
                                !.count = 0] ELSE g),
            !.listeners = @ + 1]

\* renderer.render(scene, camera) returned: what it was given
render(s, kind) ==
  [s EXCEPT !.stage = (LET g == @ IN IF Followed(g) THEN
                      [g EXCEPT !.painted =
                         [kind |-> kind, camera |-> g.camera,
                          geometry |-> IF kind = "webgl" THEN g.particles
                                       ELSE g.css3dParticles],
                                !.paints = @ + 1] ELSE g)]

\* loop() of animate: requests the next frame, moves the camera, updates the
\* arrays, renders, advances the time cursor; if render throws the call ends
\* there
animateLoop(s, cfg, renderThrows) ==
  LET s1 == requestFrame(s, "webgl", cfg)
      s2 == [s1 EXCEPT !.stage = (LET g == @ IN IF Followed(g) THEN
                         [g EXCEPT !.camera = parallax(@, g.mouseX, g.mouseY, cfg),
                                   !.particles = waveLoop(@, cfg, g.count, 0)] ELSE g)]
  IN  IF renderThrows THEN s2
      ELSE [render(s2, "webgl") EXCEPT
              !.stage = (LET g == @ IN IF Followed(g) THEN [g EXCEPT !.count = @ + cfg.waveSpeed,
                                                   !.loops = @ + 1] ELSE g)]

\* loop() of animateCSS3D: requests the next frame, updates the particles,
\* renders, advances the time cursor
animateCSS3DLoop(s, cfg, renderThrows) ==
  LET s1 == requestFrame(s, "css3d", cfg)
      s2 == [s1 EXCEPT !.stage = (LET g == @ IN IF Followed(g) THEN
                         [g EXCEPT !.css3dParticles = waveParticles(@, cfg, g.count)] ELSE g)]
  IN  IF renderThrows THEN s2
      ELSE [render(s2, "css3d") EXCEPT
              !.stage = (LET g == @ IN IF Followed(g) THEN [g EXCEPT !.count = @ + cfg.waveSpeed,
                                                   !.loops = @ + 1] ELSE g)]

\* initCSS3D: appends the script element of the DOM-transform renderer
initCSS3D(s) == [s EXCEPT !.pendingCss3d = @ + 1]

\* The statements of initWebGL's try block in order, each of which may
\* throw: the scene graph (scene, camera, buffers, material, points: lines
\* 264-319), new THREE.WebGLRenderer (321), its sizing (328-330),
\* container.style (333), the first frame's body (animate, 440-462).
WebGLSteps == << "scene", "renderer", "surface", "display", "frame" >>
\* The statements of startCSS3D's try block: the scene graph and the point
\* elements (362-387), new THREE.CSS3DRenderer (388), its sizing and style
\* (389-391), the first frame's body (animateCSS3D, 475-485).
CSS3DSteps == << "scene", "renderer", "surface", "frame" >>

\* position of a step in a sequence of steps; past the end for "ok"
StepIndex(steps, step) ==
  IF \E i \in 1..Len(steps) : steps[i] = step
  THEN CHOOSE i \in 1..Len(steps) : steps[i] = step
  ELSE Len(steps) + 1

\* the try block of initWebGL run until `out` throws ("ok": nothing throws):
\* the statements before the one that throws have taken effect
tryWebGL(s, container, out) ==
  LET n  == StepIndex(WebGLSteps, out)
      \* the camera and the point arrays
      s1 == IF n > 1
            THEN [s EXCEPT !.stage = (LET g == @ IN IF Followed(g) THEN
                             [g EXCEPT !.camera = gpuCamera(s.config, g.innerWidth, g.innerHeight),
                                       !.particles = buildParticles(s.config)] ELSE g)]
            ELSE s
      s2 == IF n > 2
            THEN [s1 EXCEPT !.gpuRenderers = Append(@, "live"),
                            !.stage = (LET g == @ IN IF Followed(g) THEN [g EXCEPT !.gpuSurface = Append(@, NoSize)] ELSE g),
                            !.renderer = Len(s.gpuRenderers) + 1]
            ELSE s1
      \* renderer.setSize(window.innerWidth, window.innerHeight)
      s3 == IF n > 3
            THEN [s2 EXCEPT !.stage = (LET g == @ IN IF Followed(g) THEN
                              [g EXCEPT !.gpuSurface[s2.renderer] = << g.innerWidth, g.innerHeight >>] ELSE g)]
            ELSE s2
      \* container.style.display = 'block'; hide the fallback
      s4 == IF n > 4 THEN hideFallback([s3 EXCEPT !.displayed = @ \cup {container}])
            ELSE s3
      \* setupInteraction(); animate(): the first loop() is called directly
      s5 == IF n > 4 THEN animateLoop(setupInteraction(s4), s.config, out = "frame") ELSE s4
  IN  IF out = "ok" THEN [s5 EXCEPT !.tier = "GpuActive"] ELSE s5

\* a catch block that rethrows instead of degrading
catchWebGLRethrows(s) == [s EXCEPT !.escaped = TRUE]

\* catch (e) of initWebGL: logs and tries the DOM-transform tier
catchWebGL(s) ==
  initCSS3D([s EXCEPT !.tier = "ProbingCapability"])

\* initWebGL
initWebGL(s, out) ==
  LET found == getElementById(s.doc, s.containerId)
      s0 == IF found = NoEl THEN createElements(s) ELSE s
      container == getElementById(s0.doc, s0.containerId)
      t == tryWebGL(s0, container, out)
  IN  IF out = "ok" THEN t ELSE catchWebGL(t)

\* what initWebGL's try block can do given the canvas it found: with no
\* canvas, container.style (line 333) throws if nothing threw before
WebGLOutcomes(s) ==
  IF getElementById(createElements(s).doc, s.containerId) = NoEl
  THEN {"scene", "renderer", "surface", "display"}
  ELSE {"scene", "renderer", "surface", "display", "frame", "ok"}

\* the try block of startCSS3D run until `out` throws
tryCSS3D(s, out) ==
  LET n  == StepIndex(CSS3DSteps, out)
      \* the camera and the particles
      s1 == IF n > 1
            THEN [s EXCEPT !.stage = (LET g == @ IN IF Followed(g) THEN
                             [g EXCEPT !.camera = domCamera(s.config, g.innerWidth, g.innerHeight),
                                       !.css3dParticles = buildCss3dParticles(s.config)] ELSE g)]
            ELSE s
      s2 == IF n > 2
            THEN [s1 EXCEPT !.domRenderers = Append(@, "detached"),
                            !.stage = (LET g == @ IN IF Followed(g) THEN [g EXCEPT !.domSurface = Append(@, NoSize)] ELSE g),
                            !.css3dRenderer = Len(s.domRenderers) + 1]
            ELSE s1
      \* css3dRenderer.setSize(...); document.body.insertBefore(domElement);
      \* hide the fallback
      s3 == IF n > 3
            THEN hideFallback(
                   [s2 EXCEPT !.stage = (LET g == @ IN IF Followed(g) THEN
                                [g EXCEPT !.domSurface[s2.css3dRenderer] = << g.innerWidth, g.innerHeight >>] ELSE g),
                              !.domRenderers[s2.css3dRenderer] = "attached"])
            ELSE s2
      \* setupInteraction(); animateCSS3D(): the first loop() is called directly
      s4 == IF n > 3 THEN animateCSS3DLoop(setupInteraction(s3), s.config, out = "frame") ELSE s3
  IN  IF out = "ok" THEN [s4 EXCEPT !.tier = "DomActive", !.downgraded = TRUE] ELSE s4

\* a catch block that, after falling back, tries the GPU tier once more
catchCSS3DRetriesWebGL(s) ==
  tryWebGL(showFallback(s), getElementById(s.doc, s.containerId), "ok")

\* catch (e) of startCSS3D
catchCSS3D(s) == showFallback(s)

\* startCSS3D
startCSS3D(s, out) ==
  LET t == tryCSS3D(s, out)
  IN  IF out = "ok" THEN t ELSE catchCSS3D(t)

CSS3DOutcomes == {"scene", "renderer", "surface", "frame", "ok"}

\* webglSupported: what the probe can answer; it never throws (try/catch)
webglSupported == BOOLEAN

\* onThreeLoaded; `webgl` is what webglSupported() answered
onThreeLoaded(s, webgl, out) ==
  IF webgl THEN initWebGL(s, out) ELSE initCSS3D(s)

\* loadThreeJS
loadThreeJS(s, webgl, out) ==
  IF s.threeLoaded THEN onThreeLoaded(s, webgl, out)
  ELSE [s EXCEPT !.pendingThree = @ + 1]

\* an init without its guard
guardMissing(s) == FALSE

\* if (this.initialized) { log; return; }
alreadyInitialized(s) == s.initialized

\* a resolution that merges into the preset object itself (Object.assign on
\* the entry found): this.config is that entry, and each override lands in
\* the table
initResolveInPlace(s, options, path) ==
  LET presetName == IF options.preset # "" THEN options.preset ELSE detectPreset(path)
      entry  == IF presetName \in DOMAIN s.presetTable THEN presetName ELSE "waves"
      merged == ResolveConfig(s.presetTable, options, path)
  IN  [s EXCEPT !.config = merged, !.presetTable[entry] = merged]

\* init, lines 193-198: this.config becomes a fresh object, the spread of the
\* preset found and the override bundle; the color override is written to
\* that object; the table is read only
initResolve(s, options, path) ==
  [s EXCEPT !.config = ResolveConfig(s.presetTable, options, path)]

\* init, after the guard
initBody(s, options, path) ==
  LET s1 == createElements(initResolve(s, options, path))
  IN  [s1 EXCEPT
         !.containerId = IF options.container # "" THEN options.container
                         ELSE "wavehero-canvas",
         !.fallbackEl  = getElementById(s1.doc, IF options.fallbackId # "" THEN options.fallbackId
                                                ELSE "wavehero-fallback"),
         !.initialized = TRUE,
         !.tier = "ProbingCapability",
         !.inits = @ + 1,
         !.lastInit = [options |-> options, path |-> path]]

\* init
init(s, options, path, webgl, out) ==
  IF alreadyInitialized(s) THEN enter(s, "initNoop")
  ELSE loadThreeJS(initBody(enter(s, "init"), options, path), webgl, out)

\* a destroy that disposes the renderer without looking whether there is one
destroyGuardsNoRendererCheck(s) ==
  [cancel  |-> Truthy(s.animationId),
   dispose |-> TRUE,
   remove  |-> s.css3dRenderer # 0]

\* destroy's guards: which of the three releases it performs
destroyGuards(s) ==
  [cancel  |-> Truthy(s.animationId),
   dispose |-> s.renderer # 0,
   remove  |-> s.css3dRenderer # 0]

\* destroy; a method called on null throws and ends the call there
destroy(s) ==
  LET g  == destroyGuards(s)
      s1 == IF g.cancel THEN [s EXCEPT !.frames = cancelAnimationFrame(@, s.animationId)]
            ELSE s
      throws2 == g.dispose /\ s.renderer = 0
      s2 == IF g.dispose /\ ~throws2
            THEN [s1 EXCEPT !.gpuRenderers[s.renderer] = "disposed"] ELSE s1
      throws3 == ~throws2 /\ g.remove /\ s.css3dRenderer = 0
      s3 == IF g.remove /\ ~throws2 /\ ~throws3
            THEN [s2 EXCEPT !.domRenderers[s.css3dRenderer] =
                               IF @ = "attached" THEN "removed" ELSE @]
            ELSE s2
      s4 == IF throws2 \/ throws3 THEN [s3 EXCEPT !.escaped = TRUE]
            ELSE [s3 EXCEPT !.initialized = FALSE,
                            \* a pipeline that was never initialized stays so
                            !.tier = IF @ = "Uninitialized" THEN @ ELSE "Destroyed"]
  IN  [enter(s4, IF s.lastOp \in {"destroy", "destroyAgain"} THEN "destroyAgain" ELSE "destroy")
         EXCEPT !.everDestroyed = TRUE]

\* a resize listener that leaves the DOM-transform renderer's surface alone
onResizeGpuOnly(s) ==
  [s EXCEPT !.stage = (LET g == @ IN IF Followed(g) THEN
     LET g1 == [g EXCEPT !.windowHalfX = (g.innerWidth * Unit) \div 2,
                         !.windowHalfY = (g.innerHeight * Unit) \div 2,
                         !.camera.aspect = Aspect(g.innerWidth, g.innerHeight)]
     IN  IF s.renderer # 0
         THEN [g1 EXCEPT !.gpuSurface[s.renderer] = << g.innerWidth, g.innerHeight >>]
         ELSE g1 ELSE g)]

\* the resize listener of setupInteraction (lines 417-429)
onResize(s) ==
  [s EXCEPT !.stage = (LET g == @ IN IF Followed(g) THEN
     LET g1 == [g EXCEPT !.windowHalfX = (g.innerWidth * Unit) \div 2,
                         !.windowHalfY = (g.innerHeight * Unit) \div 2,
                         !.camera.aspect = Aspect(g.innerWidth, g.innerHeight)]
         g2 == IF s.renderer # 0
               THEN [g1 EXCEPT !.gpuSurface[s.renderer] = << g.innerWidth, g.innerHeight >>]
               ELSE g1
     IN  IF s.css3dRenderer # 0
         THEN [g2 EXCEPT !.domSurface[s.css3dRenderer] = << g.innerWidth, g.innerHeight >>]
         ELSE g2 ELSE g)]

\* a pointermove listener that also renders
onPointerMoveRenders(s, e) ==
  render([s EXCEPT !.stage = (LET g == @ IN IF Followed(g) THEN
                     [g EXCEPT !.mouseX = e.clientX * Unit - g.windowHalfX,
                               !.mouseY = e.clientY * Unit - g.windowHalfY] ELSE g)], "webgl")

\* the pointermove listener of setupInteraction (lines 412-415)
onPointerMove(s, e) ==
  [s EXCEPT !.stage = (LET g == @ IN IF Followed(g) THEN
                      [g EXCEPT !.mouseX = e.clientX * Unit - g.windowHalfX,
                                !.mouseY = e.clientY * Unit - g.windowHalfY] ELSE g)]

\* the browser dispatches a pointermove event: the n registered listeners run
RECURSIVE pointermove(_, _, _)
pointermove(s, e, n) ==
  IF n = 0 THEN s ELSE pointermove(onPointerMove(s, e), e, n - 1)

\* the browser dispatches a resize event: the n registered listeners run
RECURSIVE resize(_, _)
resize(s, n) ==
  IF n = 0 THEN s ELSE resize(onResize(s), n - 1)

\* the browser calls the loop closure of a frame request
loop(s, f) ==
  LET s1 == [enter(s, "frame") EXCEPT !.frames = @ \ {f}]
  IN  IF f.kind = "webgl" THEN animateLoop(s1, closureCfg(s, f), FALSE)
      ELSE animateCSS3DLoop(s1, closureCfg(s, f), FALSE)

(***************************************************************************)
(* The host page and the environment.                                      *)
(***************************************************************************)
\* anchor elements the host page brings itself
PageElements == {"page-canvas"}

NoCustom == [k \in {} |-> 0]

\* the options init is called with: a preset left to the pathname; an unknown
\* preset with a colour, a canvas of the page and a fallback id that names no
\* element; a canvas id that names no element.  The override bundles keep the
\* grids small.
Options ==
  { [preset |-> "", custom |-> [amountX |-> 1, amountY |-> 2], container |-> "", fallbackId |-> ""],
    [preset |-> "bogus", color |-> 16711680, custom |-> [amountX |-> 2, amountY |-> 2],
     container |-> "page-canvas", fallbackId |-> "no-such-fallback"],
    [preset |-> "", custom |-> [amountX |-> 1, amountY |-> 2],
     container |-> "no-such-canvas", fallbackId |-> ""] }

\* window.location.pathname
Paths == { <<"/","b","l","o","g","/","1">> }

(***************************************************************************)
(* Initial state: the script has been evaluated (lines 133-140); the page  *)
(* may have loaded the rendering library itself.                           *)
(***************************************************************************)
Loaded(g) ==
  /\ initialized = FALSE      /\ config = NoConfig
  /\ containerId = NoEl       /\ fallbackEl = NoEl
  /\ renderer = 0             /\ css3dRenderer = 0
  /\ animationId = 0          /\ doc = PageElements
  /\ hidden = {}              /\ displayed = {}
  /\ threeLoaded \in BOOLEAN  /\ pendingThree = 0
  /\ pendingCss3d = 0         /\ gpuRenderers = << >>
  /\ domRenderers = << >>     /\ frames = {}
  /\ nextFrameId = 1          /\ listeners = 0
  /\ tier = "Uninitialized"   /\ downgraded = FALSE
  /\ everDestroyed = FALSE    /\ escaped = FALSE
  /\ lastOp = "none"          /\ inits = 0
  /\ lastInit = NoInit       /\ stage = g
  /\ presetTable = presets

\* the lifecycle on its own
Init == Loaded(NotFollowed)

(***************************************************************************)
(* Actions.                                                                *)
(***************************************************************************)
\* the host page (or autoInit) calls WaveHero.init(options); the environment
\* is consulted only as far as the call reads it
InitCall ==
  /\ initialized \/ inits < MaxInits
  /\ \E options \in Options :
       LET runs == ~alreadyInitialized(Cur)
       IN  \E path \in (IF runs /\ options.preset = "" THEN Paths ELSE {<<"/">>}) :
           \E webgl \in (IF runs /\ threeLoaded THEN webglSupported ELSE {FALSE}) :
           \E out \in (IF runs /\ threeLoaded /\ webgl
                       THEN WebGLOutcomes(initBody(Cur, options, path)) ELSE {"ok"}) :
              Becomes(init(Cur, options, path, webgl, out))

\* the host page calls WaveHero.destroy()
DestroyCall ==
  \E s \in {destroy(Cur)} : Becomes(s)

\* script.onload of a three.min.js script element
ThreeLoad ==
  /\ pendingThree > 0
  /\ \E webgl \in webglSupported : \E out \in (IF webgl THEN WebGLOutcomes(Cur) ELSE {"ok"}) :
       Becomes(onThreeLoaded([enter(Cur, "script") EXCEPT !.pendingThree = @ - 1,
                                                          !.threeLoaded = TRUE], webgl, out))

\* script.onerror of a three.min.js script element
ThreeError ==
  /\ pendingThree > 0
  /\ Becomes(showFallback([enter(Cur, "script") EXCEPT !.pendingThree = @ - 1]))

\* script.onload of a CSS3DRenderer.js script element
Css3dLoad ==
  /\ pendingCss3d > 0
  /\ \E out \in CSS3DOutcomes :
       Becomes(startCSS3D([enter(Cur, "script") EXCEPT !.pendingCss3d = @ - 1], out))

\* script.onerror of a CSS3DRenderer.js script element
Css3dError ==
  /\ pendingCss3d > 0
  /\ Becomes(showFallback([enter(Cur, "script") EXCEPT !.pendingCss3d = @ - 1]))

\* the browser runs a pending animation-frame callback
Frame ==
  /\ nextFrameId <= MaxFrameId
  /\ \E f \in frames : Becomes(loop(Cur, f))

Next ==
  \/ InitCall
  \/ DestroyCall
  \/ ThreeLoad
  \/ ThreeError
  \/ Css3dLoad
  \/ Css3dError
  \/ Frame

Spec == Init /\ [][Next]_vars

(***************************************************************************)
(* The pipeline left alone by the host page after init: destroy is never   *)
(* called, and every script element appended to the document eventually    *)
(* fires onload or onerror.                                                *)
(***************************************************************************)
LiveNext ==
  \/ InitCall
  \/ ThreeLoad
  \/ ThreeError
  \/ Css3dLoad
  \/ Css3dError
  \/ Frame

LiveSpec ==
  /\ Init
  /\ [][LiveNext]_vars
  /\ WF_vars(ThreeLoad \/ ThreeError)
  /\ WF_vars(Css3dLoad \/ Css3dError)

(***************************************************************************)
(* Configuration resolution on its own: the first init call of a page that *)
(* has not loaded the rendering library itself, over a wider range of       *)
(* options and pathnames.                                                   *)
(***************************************************************************)
\* preset option: left out, the keys of the table, names that are no key
ConfigPresetNames ==
  {"", "waves", "particles", "grid", "nebula", "quantum", "governance", "classical",
   "bogus", "Waves", "constructor", "__proto__"}

\* color option: black, the scenario's red, white
ConfigColors == {0, 16711680, 16777215}

\* override bundle: none, one with a color of its own, one without
ConfigCustoms == {NoCustom, [color |-> 1193046, amountX |-> 3], [waveHeight |-> 5]}

ConfigOptions ==
  {[preset |-> p, custom |-> c, container |-> "", fallbackId |-> ""] :
     p \in ConfigPresetNames, c \in ConfigCustoms}
  \cup
  {[preset |-> p, color |-> col, custom |-> c, container |-> "", fallbackId |-> ""] :
     p \in ConfigPresetNames, col \in ConfigColors, c \in ConfigCustoms}

ConfigPaths ==
  { <<"/">>,
    <<"/","b","l","o","g","/","1">>,
    <<"/","b","l","o">>,
    <<"/","q","u","a","n","t","u","m">>,
    <<"/","q","u","a","n","t","u","m","x">>,
    <<"/","a","b","o","u","t","/">>,
    <<"/","v","i","s","u","a","l","i","z","a","t","i","o","n","s">>,
    <<"/","g","o","v","e","r","n","a","n","c","e","/","q","u","a","n","t","u","m">>,
    <<"/","c","l","a","s","s","i","c","a","l">>,
    <<"/","d","o","c","s","/","b","l","o","g">> }

ConfigInit == Init /\ threeLoaded = FALSE

ConfigInitCall ==
  /\ ~initialized
  /\ \E options \in ConfigOptions :
       \E path \in (IF options.preset = "" THEN ConfigPaths ELSE {<<"/">>}) :
          Becomes(init(Cur, options, path, FALSE, "ok"))

ConfigNext == ConfigInitCall

ConfigSpec == ConfigInit /\ [][ConfigNext]_vars

(***************************************************************************)
(* The stage followed: one init call on a page, then frames, pointer moves  *)
(* and window resizes in any order.                                         *)
(***************************************************************************)
\* grid extents go up to this
MaxAmount == 2
\* frame callbacks run only while requestAnimationFrame ids are below this
MaxStageFrameId == 3

StageOptions ==
  {[preset |-> "waves", custom |-> [amountX |-> x, amountY |-> y],
    container |-> "", fallbackId |-> ""] : x \in 1..MaxAmount, y \in 1..MaxAmount}

\* clientX, clientY of the pointermove events
PointerEvents == {[clientX |-> 0, clientY |-> 0], [clientX |-> 700, clientY |-> 100]}

\* the sizes the window takes
WindowSizes == {<< 800, 600 >>, << 1000, 500 >>}

StageInit == Loaded(Stage)

StageInitCall ==
  /\ inits = 0
  /\ \E options \in StageOptions :
     \E webgl \in (IF threeLoaded THEN webglSupported ELSE {FALSE}) :
     \E out \in (IF threeLoaded /\ webgl
                 THEN WebGLOutcomes(initBody(Cur, options, <<"/">>)) ELSE {"ok"}) :
        Becomes(init(Cur, options, <<"/">>, webgl, out))

\* the pointer moves over the page
PointerMove ==
  /\ listeners > 0
  /\ \E e \in PointerEvents : Becomes(pointermove(enter(Cur, "pointermove"), e, listeners))

\* the window is resized
Resize ==
  \E size \in WindowSizes \ {<< stage.innerWidth, stage.innerHeight >>} :
     Becomes(resize([enter(Cur, "resize") EXCEPT !.stage.innerWidth = size[1],
                                                 !.stage.innerHeight = size[2]], listeners))

\* the browser runs a pending animation-frame callback
StageFrame ==
  /\ nextFrameId <= MaxStageFrameId
  /\ \E f \in frames : Becomes(loop(Cur, f))

StageNext ==
  \/ StageInitCall
  \/ ThreeLoad
  \/ ThreeError
  \/ Css3dLoad
  \/ Css3dError
  \/ StageFrame
  \/ PointerMove
  \/ Resize

StageSpec == StageInit /\ [][StageNext]_vars

(***************************************************************************)
(* The DOM-transform tier on grids around its caps: one init call in a      *)
(* browser without WebGL, then the fetches and frames.                      *)
(***************************************************************************)
\* the largest grid extents configured
MaxGridX == 21
MaxGridY == 16

\* amountX and amountY of the override bundle: below, at and above the caps
\* of startCSS3D
GridAmountsX == {1, 2, 20, MaxGridX}
GridAmountsY == {1, 3, 15, MaxGridY}

GridOptions ==
  {[preset |-> p, custom |-> [amountX |-> x, amountY |-> y],
    container |-> "", fallbackId |-> ""] :
     p \in {"waves", "particles"}, x \in GridAmountsX, y \in GridAmountsY}

GridInit == Loaded(Stage)

GridInitCall ==
  /\ inits = 0
  /\ \E options \in GridOptions : Becomes(init(Cur, options, <<"/">>, FALSE, "ok"))

\* script.onload of three.min.js where webglSupported() answers false
GridThreeLoad ==
  /\ pendingThree > 0
  /\ Becomes(onThreeLoaded([enter(Cur, "script") EXCEPT !.pendingThree = @ - 1,
                                                        !.threeLoaded = TRUE], FALSE, "ok"))

GridNext ==
  \/ GridInitCall
  \/ GridThreeLoad
  \/ ThreeError
  \/ Css3dLoad
  \/ Css3dError
  \/ StageFrame

GridSpec == GridInit /\ [][GridNext]_vars

(***************************************************************************)
(* Derived notions.                                                        *)
(***************************************************************************)
\* renderers holding resources: GPU renderers not disposed, DOM-transform
\* renderers whose root element is in the document
LiveGpu == {i \in DOMAIN gpuRenderers : gpuRenderers[i] = "live"}
AttachedDom == {i \in DOMAIN domRenderers : domRenderers[i] = "attached"}
LiveRenderers == Cardinality(LiveGpu) + Cardinality(AttachedDom)

\* something is on screen: an animated tier, or the static gradient
VisiblyRendered ==
  \/ tier \in {"GpuActive", "DomActive"}
  \/ tier = "StaticFallback" /\ "wavehero-fallback" \in doc \ hidden

(***************************************************************************)
(* Properties.                                                             *)
(***************************************************************************)

C2_NoFrameAfterDestroy ==
  ~initialized => frames = {}

\* C3: at most one renderer holds resources, and while the DOM-transform tier
\* is active no GPU renderer is left undisposed.
C3_AtMostOneRenderer ==
  /\ LiveRenderers <= 1
  /\ tier = "DomActive" => LiveGpu = {}

\* C4: after a second init call with no destroy in between there is one
\* renderer and one animation loop, not two.
C4_DoubleInitOneRenderer ==
  (lastOp = "initNoop" /\ ~everDestroyed)
    => /\ LiveRenderers <= 1
       /\ Cardinality(frames) <= 1

C6_EndsVisiblyRendered ==
  (initialized /\ pendingThree = 0 /\ pendingCss3d = 0) => VisiblyRendered

\* C7: in StaticFallback the pipeline's fallback element does not carry the
\* hidden marker.
C7_FallbackVisibleInStatic ==
  tier = "StaticFallback" => fallbackEl \notin hidden

\* C8: in GpuActive and DomActive the fallback element is hidden, and the
\* fallback element is never removed from the document.
C8_FallbackHiddenWhenActive ==
  /\ tier \in {"GpuActive", "DomActive"} => (fallbackEl # NoEl /\ fallbackEl \in hidden)
  /\ inits > 0 => "wavehero-fallback" \in doc
  /\ hidden \subseteq doc

\* C9: init returns normally whatever probing, loading and construction do,
\* and a failure has become a tier transition: after an init that took effect
\* the GPU tier is active or a fetch for the next step is under way.
C9_InitNeverThrows ==
  lastOp = "init"
    => /\ ~escaped
       /\ initialized
       /\ \/ tier = "GpuActive"
          \/ pendingThree > 0
          \/ tier = "ProbingCapability" /\ pendingCss3d > 0

\* C9 witness: the first frame threw inside initWebGL, called from init, and
\* the DOM-transform renderer is being fetched
C9_Witness ==
  /\ lastOp = "init" /\ inits = 1 /\ ~everDestroyed
  /\ tier = "ProbingCapability"
  /\ frames # {}
  /\ pendingCss3d = 1

\* C10: destroy never throws, and a destroy right after a destroy changes
\* nothing.
C10_DestroySafe ==
  /\ [](lastOp \in {"destroy", "destroyAgain"} => ~escaped)
  /\ [][lastOp' = "destroyAgain" => UNCHANGED << progVars, tier, downgraded >>]_vars

\* C10 witness: destroy ran twice in a row on a pipeline that had a GPU
\* renderer and a frame request
C10_Witness ==
  /\ lastOp = "destroyAgain"
  /\ renderer # 0
  /\ animationId # 0

\* C11: when destroy has returned, every GPU renderer constructed so far is
\* disposed and no DOM-transform renderer's root element is in the document.
C11_DestroyReleasesEverything ==
  lastOp \in {"destroy", "destroyAgain"} => (LiveGpu = {} /\ AttachedDom = {})

\* C12: for a preset of the table and a numeric color option, black
\* included, the resolved color is that option, whatever color the override
\* bundle has, and the other fields are the preset with the bundle spread over.
C12_ColorOptionWins ==
  (/\ lastOp = "init"
   /\ "color" \in DOMAIN lastInit.options
   /\ lastInit.options.preset \in DOMAIN presets)
    => LET merged == Spread(presets[lastInit.options.preset], lastInit.options.custom)
       IN  /\ DOMAIN config = DOMAIN merged
           /\ config.color = lastInit.options.color
           /\ \A k \in DOMAIN merged \ {"color"} : config[k] = merged[k]

\* C13: for a preset name that is no key of the table, with no color option
\* and no override bundle, the resolved configuration is the 'waves' preset
\* field for field, and init raised no error.
C13_UnknownPresetIsWaves ==
  (/\ lastOp = "init"
   /\ lastInit.options.preset \notin DOMAIN presets \cup {""}
   /\ "color" \notin DOMAIN lastInit.options
   /\ lastInit.options.custom = NoCustom)
    => (config = presets.waves /\ ~escaped)

\* the preset of the longest pathPresets pattern that starts the path
LongestPrefixPreset(path) ==
  LET hits == {i \in 1..Len(pathPresets) : startsWith(path, pathPresets[i].pattern)}
  IN  IF hits = {} THEN "waves"
      ELSE pathPresets[CHOOSE i \in hits :
                         \A j \in hits : Len(pathPresets[j].pattern) <= Len(pathPresets[i].pattern)].preset

\* C14: with no preset option, the preset detected for the pathname is the
\* one of the longest table entry that starts the pathname ('waves' when only
\* '/' does), it is a key of the preset table, and it is the preset resolved.
C14_LongestPrefixPreset ==
  (lastOp = "init" /\ lastInit.options.preset = "")
    => LET name   == LongestPrefixPreset(lastInit.path)
           merged == Spread(presets[name], lastInit.options.custom)
       IN  /\ detectPreset(lastInit.path) = name
           /\ name \in DOMAIN presets
           /\ config = IF ColorGiven(lastInit.options)
                       THEN Spread(merged, [color |-> lastInit.options.color])
                       ELSE merged

\* C14 witness: init with no preset on /governance/quantum, where '/' and
\* '/governance' start the pathname and '/quantum' does not
C14_Witness ==
  /\ lastOp = "init"
  /\ lastInit.options.preset = ""
  /\ lastInit.path = <<"/","g","o","v","e","r","n","a","n","c","e","/","q","u","a","n","t","u","m">>
  /\ config.cameraZ = presets.governance.cameraZ

\* C16: a renderer of either kind is constructed only once the rendering
\* library is there, a DOM-transform renderer only in the onload of its own
\* script; and the step in which a library fetch fails announces StaticFallback,
\* constructs no renderer and requests no frame.
C16_NoConstructionWithoutLibrary ==
  /\ []((gpuRenderers # << >> \/ domRenderers # << >>) => threeLoaded)
  /\ [][(Len(domRenderers') > Len(domRenderers)) => (pendingCss3d' = pendingCss3d - 1)]_vars
  /\ [][(ThreeError \/ Css3dError)
          => /\ tier' = "StaticFallback"
             /\ UNCHANGED << gpuRenderers, domRenderers, renderer, css3dRenderer,
                             frames, animationId, nextFrameId, listeners >>]_vars

\* C16 witness: the only fetch of three.min.js failed; the library is not
\* there, nothing was constructed, no frame is requested
C16_Witness ==
  /\ lastOp = "script" /\ inits = 1 /\ ~everDestroyed
  /\ ~threeLoaded /\ pendingThree = 0
  /\ tier = "StaticFallback"
  /\ gpuRenderers = << >> /\ domRenderers = << >> /\ frames = {}

\* C15: a resize handled in GpuActive or DomActive leaves, when the handler
\* returns, the half-viewport at half the new size, the camera's aspect at
\* new width / new height, and the surface of the tier's renderer at the new
\* size.
C15_ResizeReachesActiveTier ==
  [][(lastOp' = "resize" /\ tier \in {"GpuActive", "DomActive"})
       => LET g == stage'
          IN  /\ g.windowHalfX = (g.innerWidth * Unit) \div 2
              /\ g.windowHalfY = (g.innerHeight * Unit) \div 2
              /\ g.camera.aspect = Aspect(g.innerWidth, g.innerHeight)
              /\ (tier = "GpuActive") => (g.gpuSurface[renderer] = << g.innerWidth, g.innerHeight >>)
              /\ (tier = "DomActive") => (g.domSurface[css3dRenderer] = << g.innerWidth, g.innerHeight >>)]_vars

\* C15 witness: the window was resized to 1000 by 500 in DomActive
C15_Witness ==
  /\ lastOp = "resize" /\ tier = "DomActive"
  /\ stage.innerWidth = 1000
  /\ stage.domSurface[css3dRenderer] = << 1000, 500 >>
  /\ stage.camera.aspect = Aspect(1000, 500)

\* C17: what a frame leaves in the point arrays (GPU tier) or in the
\* particles (DOM-transform tier) is what the same update gives on the freshly
\* constructed geometry with the same time cursor, whatever the frames before
\* left behind; and running the update once more with that time cursor changes
\* nothing.
C17_UpdateDependsOnCursorOnly ==
  [][(lastOp' = "frame" /\ stage'.painted # NoPaint)
       => IF stage'.painted.kind = "webgl"
          THEN /\ stage'.particles = waveLoop(buildParticles(config), config, stage.count, 0)
               /\ waveLoop(stage'.particles, config, stage.count, 0) = stage'.particles
          ELSE /\ stage'.css3dParticles
                    = waveParticles(buildCss3dParticles(config), config, stage.count)
               /\ waveParticles(stage'.css3dParticles, config, stage.count)
                    = stage'.css3dParticles]_vars

\* C17 witness: the third update of the point arrays of the GPU tier has been
\* painted, and the wave has moved the first point
C17_Witness ==
  /\ lastOp = "frame" /\ tier = "GpuActive"
  /\ stage.painted # NoPaint
  /\ stage.loops = 3
  /\ stage.particles.position[2] # 0

\* C18: from construction on and after every frame, the position array has 3
\* entries and the scale array 1 entry per cell of the amountX by amountY grid.
C18_BufferLengths ==
  (stage.particles # NoParticles)
    => /\ Len(stage.particles.position) = 3 * config.amountX * config.amountY
       /\ Len(stage.particles.scale) = config.amountX * config.amountY

\* C18 witness: a 2 by 2 grid after construction and two frame callbacks
C18_Witness ==
  /\ lastOp = "frame" /\ stage.loops = 3
  /\ config.amountX = 2 /\ config.amountY = 2
  /\ Len(stage.particles.position) = 12
  /\ Len(stage.particles.scale) = 4

\* C19: the render call of every frame of an animated tier is given the
\* geometry updated for the frame's time cursor and the camera moved by the
\* parallax step for the stored pointer offset.
C19_PaintSeesThisFrame ==
  [][(lastOp' = "frame" /\ tier \in {"GpuActive", "DomActive"})
       => /\ stage'.paints = stage.paints + 1
          /\ stage'.painted.camera = parallax(stage.camera, stage.mouseX, stage.mouseY, config)
          /\ stage'.painted.geometry
               = IF stage'.painted.kind = "webgl"
                 THEN waveLoop(stage.particles, config, stage.count, 0)
                 ELSE waveParticles(stage.css3dParticles, config, stage.count)]_vars

\* C20: as many render calls have returned as loop closures have run to
\* their end; a pointermove or resize handler makes no render call and
\* requests no frame; a pointermove handler writes mouseX and mouseY only.
C20_HandlersNeverPaint ==
  /\ [](stage.paints = stage.loops)
  /\ [][(lastOp' \in {"pointermove", "resize"})
          => /\ stage'.paints = stage.paints /\ stage'.loops = stage.loops
             /\ UNCHANGED << frames, animationId, nextFrameId >>]_vars
  /\ [][(lastOp' = "pointermove")
          => /\ UNCHANGED << initialized, config, containerId, fallbackEl, renderer,
                             css3dRenderer, animationId, doc, hidden, displayed, threeLoaded,
                             pendingThree, pendingCss3d, gpuRenderers, domRenderers, frames,
                             nextFrameId, listeners >>
             /\ stage' = [stage EXCEPT !.mouseX = stage'.mouseX, !.mouseY = stage'.mouseY,
                                       !.painted = NoPaint]]_vars

\* C20 witness: a pointer move between two frames of the GPU tier has stored
\* an offset
C20_Witness ==
  /\ lastOp = "pointermove" /\ tier = "GpuActive"
  /\ stage.mouseX = 300 * Unit /\ stage.mouseY = 0 - 200 * Unit
  /\ stage.paints = 2
  /\ frames # {}

\* C21: a load of the library that does not end in GpuActive (the GPU tier
\* was not supported, or its construction threw at some step) starts exactly
\* one fetch of the DOM-transform renderer and constructs none in that step;
\* the onload of that fetch ends in DomActive or, if construction threw at
\* some step, in StaticFallback, with no exception escaping and no further
\* fetch started; and while the pipeline is in StaticFallback no fetch is
\* outstanding, so no tier is attempted after it.
C21_FailureCascade ==
  /\ [][ThreeLoad => /\ (tier' = "GpuActive" \/ pendingCss3d' = pendingCss3d + 1)
                     /\ domRenderers' = domRenderers
                     /\ ~escaped']_vars
  /\ [][Css3dLoad => /\ tier' \in {"DomActive", "StaticFallback"}
                     /\ pendingCss3d' = pendingCss3d - 1
                     /\ pendingThree' = pendingThree
                     /\ gpuRenderers' = gpuRenderers
                     /\ ~escaped']_vars
  /\ [](tier = "StaticFallback" => (pendingThree = 0 /\ pendingCss3d = 0))

\* C22: in DomActive the extent of the point field on each horizontal axis,
\* which is twice the distance of the first row (ix = 0, iy = 0) from the
\* origin, as many points as the axis has times the spacing used, is the
\* extent of the GPU tier's field for the same configuration: amountX times
\* separation, amountY times separation.
C22_SameFootprint ==
  (tier = "DomActive")
    => LET first == stage.css3dParticles[1]
       IN  /\ 0 - 2 * first.x = config.amountX * config.separation * Unit
           /\ 0 - 2 * first.z = config.amountY * config.separation * Unit

\* C23: in DomActive, where every element has been through the update of at
\* least one frame, the opacity assigned to each element is at least 0 and at
\* most the configured opacity.
C23_OpacityWithinConfigured ==
  (tier = "DomActive")
    => \A k \in DOMAIN stage.css3dParticles :
          /\ 0 <= stage.css3dParticles[k].opacity
          /\ stage.css3dParticles[k].opacity <= config.opacity

\* C24: once startCSS3D has constructed its renderer, the particles array
\* holds min(amountX, 20) * min(amountY, 15) elements, at most 300, one per
\* cell (ix, iy) of that grid, and neighbours on either axis are 1.5 times
\* the configured separation apart.
C24_DomGridCapped ==
  (css3dRenderer # 0)
    => LET ps == stage.css3dParticles
           nx == min(config.amountX, 20)
           ny == min(config.amountY, 15)
       IN  /\ Len(ps) = nx * ny
           /\ Len(ps) <= 300
           /\ \A ix \in 0..(nx - 1), iy \in 0..(ny - 1) :
                 \E k \in DOMAIN ps : ps[k].ix = ix /\ ps[k].iy = iy
           /\ \A k, m \in DOMAIN ps :
                 /\ (ps[m].ix = ps[k].ix + 1) => 2 * (ps[m].x - ps[k].x) = 3 * config.separation * Unit
                 /\ (ps[m].iy = ps[k].iy + 1) => 2 * (ps[m].z - ps[k].z) = 3 * config.separation * Unit

\* C24 witness: a grid configured above both caps is in DomActive with 300
\* elements after a frame callback
C24_Witness ==
  /\ lastOp = "frame" /\ tier = "DomActive"
  /\ config.amountX > 20 /\ config.amountY > 15
  /\ Len(stage.css3dParticles) = 300

\* C25: a grid that has been constructed and that no frame has updated yet
\* (GPU tier: the point arrays, no GPU frame request made; DOM-transform
\* tier: the particles, no DOM frame request made) has its neighbours one
\* spacing apart (the configured separation in the GPU tier, the spacing of
\* C24 in the DOM-transform tier), its smallest x the negative of its largest
\* x and likewise for z, every y at 0 and, in the GPU tier, every scale at 1.
C25_FreshGridCentred ==
  /\ (stage.particles # NoParticles /\ \A f \in frames : f.kind # "webgl")
       => LET pos == stage.particles.position
              n   == config.amountX * config.amountY
              x(j) == pos[3 * j + 1]
              y(j) == pos[3 * j + 2]
              z(j) == pos[3 * j + 3]
          IN  /\ \A j \in 0..(n - 1) :
                    /\ y(j) = 0
                    /\ stage.particles.scale[j + 1] = Unit
                    /\ \E k \in 0..(n - 1) : x(k) = 0 - x(j)
                    /\ \E k \in 0..(n - 1) : z(k) = 0 - z(j)
                    /\ (j + 1 < n /\ (j + 1) % config.amountY # 0)
                         => z(j + 1) - z(j) = config.separation * Unit
                    /\ (j + config.amountY < n)
                         => x(j + config.amountY) - x(j) = config.separation * Unit
  /\ (stage.css3dParticles # << >> /\ \A f \in frames : f.kind # "css3d")
       => LET ps == stage.css3dParticles
          IN  \A k \in DOMAIN ps :
                 /\ ps[k].y = 0
                 /\ \E m \in DOMAIN ps : ps[m].x = 0 - ps[k].x
                 /\ \E m \in DOMAIN ps : ps[m].z = 0 - ps[k].z

\* C26: whatever frames have run, the x and z coordinate of every point are
\* those construction gave it: in the point array of the GPU tier the entries
\* 3j and 3j + 2 of every cell j, in the DOM-transform tier position.x,
\* position.z and the cell (ix, iy) of every particle; and a frame callback
\* leaves alone the geometry of the tier it does not belong to.
C26_FramesKeepXZ ==
  /\ [](stage.particles # NoParticles
          => LET fresh == buildParticles(config).position
                 pos   == stage.particles.position
             IN  /\ DOMAIN pos = DOMAIN fresh
                 /\ \A i \in DOMAIN pos : (i % 3 # 2) => pos[i] = fresh[i])
  /\ [](stage.css3dParticles # << >>
          => LET fresh == buildCss3dParticles(config)
                 ps    == stage.css3dParticles
             IN  /\ DOMAIN ps = DOMAIN fresh
                 /\ \A k \in DOMAIN ps :
                       /\ ps[k].x = fresh[k].x   /\ ps[k].z = fresh[k].z
                       /\ ps[k].ix = fresh[k].ix /\ ps[k].iy = fresh[k].iy)
  /\ [][(lastOp' = "frame")
          => \/ stage'.particles = stage.particles
             \/ stage'.css3dParticles = stage.css3dParticles]_vars

\* C26 witness: three updates of the DOM-transform tier's particles have been
\* painted; the wave has moved the second particle of a 2 by 2 grid up or
\* down and it is where construction put it on x and z
C26_Witness ==
  /\ lastOp = "frame" /\ tier = "DomActive"
  /\ stage.loops = 3
  /\ config.amountX = 2 /\ config.amountY = 2
  /\ stage.css3dParticles[2].y # 0
  /\ stage.css3dParticles[2].x = 0 - 120 * Unit
  /\ stage.css3dParticles[2].z = 0

\* C27: this.config changes only in the step of an init call that took
\* effect, so no load, construction, frame, downgrade or destroy changes a
\* field of it; it is at all times what the last such init resolved from the
\* preset table as the script defines it; and the preset table itself never
\* changes, whatever override bundles and colors the init calls brought.
C27_ConfigReadOnly ==
  /\ [][(config' # config) => (lastOp' = "init" /\ inits' = inits + 1)]_vars
  /\ [](lastInit # NoInit => config = ResolveConfig(presets, lastInit.options, lastInit.path))
  /\ [](presetTable = presets)

\* C27 witness: a second init, with a color and an override bundle on the
\* 'waves' fallback, followed a destroy; the DOM-transform tier is running
\* frames and the 'waves' entry of the table has its own color and grid
C27_Witness ==
  /\ inits = 2 /\ everDestroyed
  /\ lastOp = "frame" /\ tier = "DomActive"
  /\ config.color = 16711680 /\ config.amountX = 2
  /\ presetTable.waves.color = 9133302 /\ presetTable.waves.amountX = 60

\* C28: the onload of a library fetch that completes after destroy, with no
\* init since, constructs no renderer of either kind, registers no listener,
\* requests no frame, and leaves the pipeline Destroyed.
C28_LateLoadDoesNothing ==
  [][(~initialized /\ everDestroyed /\ (ThreeLoad \/ Css3dLoad))
       => /\ UNCHANGED << gpuRenderers, domRenderers, renderer, css3dRenderer,
                          listeners, frames, animationId, nextFrameId >>
          /\ tier' = "Destroyed"]_vars

\* C29: at most one frame request is pending, and a pending request is the
\* one this.animationId holds the handle of.
C29_OnePendingFrame ==
  /\ Cardinality(frames) <= 1
  /\ \A f \in frames : f.id = animationId

\* C30: at most one pointermove listener and one resize listener of the
\* pipeline are registered, and none once destroy has returned, until the next
\* init.
C30_OneListenerPair ==
  /\ listeners <= 1
  /\ (lastOp \in {"destroy", "destroyAgain"}) => listeners = 0

=============================================================================
